---------------------------- MODULE Spec2Model ----------------------------
(***************************************************************************)
(* Model of src/HTML.py: the Streamlit spreadsheet column translator.      *)
(*                                                                         *)
(* Python strings are TLA+ strings.  TLA+ string literals are ASCII, so    *)
(* the non-ASCII text of the source is written with stand-ins:             *)
(*   full-width colon  (U+FF1A)  is written  ":"                           *)
(*   full-width semicolon (U+FF1B) is written ";"                          *)
(*   a line feed is written "\n"                                           *)
(*   the fixed Chinese sentences are written as short ASCII sentences.     *)
(***************************************************************************)
EXTENDS Integers, Sequences, FiniteSets, TLC

VARIABLES
    pc,            \* position of the single thread of control
    excel_file,    \* the uploaded workbook: [readable, df]
    glossary_file, \* the uploaded glossary: [utf8, text]
    api_key,       \* whether the credential environment variable is set
    col_name,      \* the source column chosen in the select box
    df,            \* the data frame being translated
    glossary,      \* the value load_glossary returned
    sys_prompt,    \* translate_column's sys_prompt
    total_rows,    \* translate_column's total_rows
    pos,           \* position of iterrows (1-based)
    calls,         \* the chat-completion requests issued, in order
    excs,          \* per row: the exception its call raised, or NoExc
    status,        \* per row: Pending, Skipped, Translated, Failed
    reports,       \* the values handed to progress_bar.progress, in order
    notices,       \* st.success / st.warning / st.error messages, in order
    abort_at,      \* the step whose exception ended the run, or "none"
    last_exc       \* the exception e that main's handler caught, or NoError

vars == <<pc, excel_file, glossary_file, api_key, col_name, df, glossary,
          sys_prompt, total_rows, pos, calls, excs, status, reports,
          notices, abort_at, last_exc>>

-----------------------------------------------------------------------------
(* Bounds of the model *)

MaxRows == 2
MaxLabel == 2

(* Program constants *)

ErrLen == 200
WarnLen == 100

-----------------------------------------------------------------------------
(* Python string helpers *)

Min(a, b) == IF a < b THEN a ELSE b

Ch(s, i) == IF i >= 1 /\ i <= Len(s) THEN SubSeq(s, i, i) ELSE ""

\* s[:n]
Slice(s, n) == SubSeq(s, 1, Min(n, Len(s)))

IsSpace(c) == c \in {" ", "\t", "\n"}

RECURSIVE LStrip(_)
LStrip(s) == IF Len(s) > 0 /\ IsSpace(Ch(s, 1))
             THEN LStrip(SubSeq(s, 2, Len(s)))
             ELSE s

RECURSIVE RStrip(_)
RStrip(s) == IF Len(s) > 0 /\ IsSpace(Ch(s, Len(s)))
             THEN RStrip(SubSeq(s, 1, Len(s) - 1))
             ELSE s

\* str.strip()
Strip(s) == RStrip(LStrip(s))

\* sep.join(parts)
RECURSIVE Join(_, _)
Join(sep, parts) ==
    IF parts = <<>> THEN ""
    ELSE IF Len(parts) = 1 THEN parts[1]
    ELSE parts[1] \o sep \o Join(sep, Tail(parts))

Digits == <<"0", "1", "2", "3", "4", "5", "6", "7", "8", "9">>

\* str(n) of a non-negative int
RECURSIVE IntStr(_)
IntStr(n) == IF n < 10 THEN Digits[n + 1]
             ELSE IntStr(n \div 10) \o Digits[(n % 10) + 1]

Range(f) == {f[x] : x \in DOMAIN f}

-----------------------------------------------------------------------------
(* json.loads, for the JSON subset of objects, arrays, strings without     *)
(* escapes, non-negative integers and null.                                *)

JVal(k, s, items) == [k |-> k, s |-> s, items |-> items]
JNull == JVal("null", "", <<>>)
JFail == [ok |-> FALSE, val |-> JNull, next |-> 0]
JOk(v, n) == [ok |-> TRUE, val |-> v, next |-> n]

RECURSIVE SkipWs(_, _)
SkipWs(s, i) == IF IsSpace(Ch(s, i)) THEN SkipWs(s, i + 1) ELSE i

\* index of the first quote at or after i, 0 when there is none
RECURSIVE ScanQuote(_, _)
ScanQuote(s, i) == IF i > Len(s) THEN 0
                   ELSE IF Ch(s, i) = "\"" THEN i
                   ELSE ScanQuote(s, i + 1)

\* index after the run of digits starting at i
RECURSIVE ScanDigits(_, _)
ScanDigits(s, i) == IF Ch(s, i) \in Range(Digits) THEN ScanDigits(s, i + 1) ELSE i

\* d[key] = val on an insertion-ordered dict
DictPut(items, key, val) ==
    IF \E j \in DOMAIN items : items[j].key = key
    THEN [j \in DOMAIN items |->
            IF items[j].key = key THEN [key |-> key, val |-> val] ELSE items[j]]
    ELSE Append(items, [key |-> key, val |-> val])

RECURSIVE ParseValue(_, _)
RECURSIVE ParseElems(_, _, _, _)
RECURSIVE ParseMembers(_, _, _, _)

ParseValue(s, i0) ==
    LET i == SkipWs(s, i0)
        c == Ch(s, i)
    IN  IF c = "\""
        THEN LET j == ScanQuote(s, i + 1)
             IN  IF j = 0 THEN JFail
                 ELSE JOk(JVal("str", SubSeq(s, i + 1, j - 1), <<>>), j + 1)
        ELSE IF c = "0" THEN JOk(JVal("num", "0", <<>>), i + 1)
        ELSE IF c \in Range(Digits)
        THEN LET j == ScanDigits(s, i)
             IN  JOk(JVal("num", SubSeq(s, i, j - 1), <<>>), j)
        ELSE IF c = "[" THEN ParseElems(s, i + 1, <<>>, TRUE)
        ELSE IF c = "{" THEN ParseMembers(s, i + 1, <<>>, TRUE)
        ELSE IF i + 3 <= Len(s) /\ SubSeq(s, i, i + 3) = "null"
        THEN JOk(JNull, i + 4)
        ELSE JFail

ParseElems(s, i0, acc, first) ==
    LET i == SkipWs(s, i0)
    IN  IF first /\ Ch(s, i) = "]" THEN JOk(JVal("list", "", acc), i + 1)
        ELSE LET r == ParseValue(s, i)
                 k == SkipWs(s, r.next)
             IN  IF ~r.ok THEN JFail
                 ELSE IF Ch(s, k) = ","
                 THEN ParseElems(s, k + 1, Append(acc, r.val), FALSE)
                 ELSE IF Ch(s, k) = "]"
                 THEN JOk(JVal("list", "", Append(acc, r.val)), k + 1)
                 ELSE JFail

ParseMembers(s, i0, acc, first) ==
    LET i == SkipWs(s, i0)
    IN  IF first /\ Ch(s, i) = "}" THEN JOk(JVal("dict", "", acc), i + 1)
        ELSE IF Ch(s, i) # "\"" THEN JFail
        ELSE LET j == ScanQuote(s, i + 1)
                 k == SkipWs(s, j + 1)
                 r == ParseValue(s, k + 1)
                 m == SkipWs(s, r.next)
                 put == DictPut(acc, SubSeq(s, i + 1, j - 1), r.val)
             IN  IF j = 0 \/ Ch(s, k) # ":" THEN JFail
                 ELSE IF ~r.ok THEN JFail
                 ELSE IF Ch(s, m) = "," THEN ParseMembers(s, m + 1, put, FALSE)
                 ELSE IF Ch(s, m) = "}" THEN JOk(JVal("dict", "", put), m + 1)
                 ELSE JFail

\* json.loads(s): [ok, val]; ~ok is json.JSONDecodeError
JsonLoads(s) ==
    LET r == ParseValue(s, 1)
    IN  IF r.ok /\ SkipWs(s, r.next) = Len(s) + 1
        THEN [ok |-> TRUE, val |-> r.val]
        ELSE [ok |-> FALSE, val |-> JNull]

\* repr(v) and str(v) of a parsed value
RECURSIVE PyRepr(_)
RECURSIVE ReprItems(_, _)
ReprItems(items, isDict) ==
    [j \in DOMAIN items |->
        IF isDict
        THEN "'" \o items[j].key \o "': " \o PyRepr(items[j].val)
        ELSE PyRepr(items[j])]

PyRepr(v) ==
    CASE v.k = "str"  -> "'" \o v.s \o "'"
      [] v.k = "num"  -> v.s
      [] v.k = "null" -> "None"
      [] v.k = "list" -> "[" \o Join(", ", ReprItems(v.items, FALSE)) \o "]"
      [] v.k = "dict" -> "{" \o Join(", ", ReprItems(v.items, TRUE)) \o "}"

PyStr(v) == IF v.k = "str" THEN v.s ELSE PyRepr(v)

-----------------------------------------------------------------------------
(* load_glossary *)

FormatMsg == "glossary is not valid JSON, check the file content"
ShapeMsg == "glossary JSON must be key-value format (key=Japanese, value=English)"
WrapPrefix == "failed to read glossary:"

Raised(cls, msg) == [raised |-> TRUE, cls |-> cls, msg |-> msg,
                     value |-> JNull, notice |-> <<>>]
Returned(v, notice) == [raised |-> FALSE, cls |-> "", msg |-> "",
                        value |-> v, notice |-> notice]

Notice(kind, text) == [kind |-> kind, text |-> text]

\* The body of the try block, lines 13-17: a ValueError raised at line 15 is an
\* Exception, so the handler of line 20 catches it and raises the wrapping
\* Exception of line 21; the ValueError of line 19 is raised inside a handler and
\* leaves the function as it is.
load_glossary(glossary_content) ==
    LET r == JsonLoads(glossary_content)
    IN  IF ~r.ok THEN Raised("ValueError", FormatMsg)
        ELSE IF r.val.k # "dict" THEN Raised("Exception", WrapPrefix \o ShapeMsg)
        ELSE Returned(r.val,
                <<Notice("success", "glossary loaded, rules: "
                                    \o IntStr(Len(r.val.items)))>>)

-----------------------------------------------------------------------------
(* The data frame *)

NaN == [t |-> "nan", s |-> "", n |-> 0]
StrCell(s) == [t |-> "str", s |-> s, n |-> 0]
IntCell(n) == [t |-> "int", s |-> "", n |-> n]

\* pd.isna(cell) and str(cell)
IsNa(cell) == cell.t = "nan"
CellStr(cell) == CASE cell.t = "nan" -> "nan"
                   [] cell.t = "str" -> cell.s
                   [] cell.t = "int" -> IntStr(cell.n)

NoDf == [columns |-> <<>>, index |-> <<>>, data |-> <<>>]

\* df[name] = value : overwrites the column called name, or appends a new one
SetColumn(d, name, value) ==
    LET col == [j \in DOMAIN d.index |-> value]
    IN  IF name \in Range(d.columns)
        THEN [d EXCEPT !.data = [c \in DOMAIN d.data |->
                                    IF c = name THEN col ELSE d.data[c]]]
        ELSE [d EXCEPT !.columns = Append(d.columns, name),
                       !.data = [c \in DOMAIN d.data \cup {name} |->
                                    IF c = name THEN col ELSE d.data[c]]]

\* df.at[label, name] = value : every row whose index label is label
AtSet(d, label, name, value) ==
    [d EXCEPT !.data[name] = [j \in DOMAIN d.index |->
                                IF d.index[j] = label THEN value ELSE @[j]]]

NewCol(col, target_lang) == col \o "_" \o target_lang

TargetLang == "translated"

-----------------------------------------------------------------------------
(* The prompts *)

SysHead == "You are a professional translator into Hong Kong English.\n"
           \o "Follow the glossary below, keep it consistent:\n"
SysTail == "\n" \o "Terms not in the glossary follow MUJI HK conventions."
UserHead == "Japanese source:"
UserTail == "\n" \o "Hong Kong English translation:"

\* lines 30: the list comprehension over glossary.items()
PairStrings(g) == [j \in DOMAIN g.items |->
                      g.items[j].key \o ":" \o PyStr(g.items[j].val)]

\* line 30 joining with a comma
GlossaryStr_Comma(g) == Join(",", PairStrings(g))

GlossaryStr(g) == Join(";", PairStrings(g))

BuildSysPrompt(g) == SysHead \o GlossaryStr(g) \o SysTail

BuildUserPrompt(original) == UserHead \o CellStr(original) \o UserTail

\* line 52 without the strip
IsBlank_NoStrip(original) == IsNa(original) \/ CellStr(original) = ""

\* line 52
IsBlank(original) == IsNa(original) \/ Strip(CellStr(original)) = ""

\* line 72 with the warning's truncation of line 74
ErrorMark_Short(msg) == "[ERROR: " \o Slice(msg, WarnLen) \o "]"

\* line 72
ErrorMark(msg) == "[ERROR: " \o Slice(msg, ErrLen) \o "]"

\* line 74
WarnText(label, msg) == "row " \o IntStr(label) \o " failed: " \o Slice(msg, WarnLen)

-----------------------------------------------------------------------------
(* The environment: uploaded files, remote outcomes *)

RECURSIVE Repeat(_, _)
Repeat(s, k) == IF k = 0 THEN "" ELSE s \o Repeat(s, k - 1)

\* a message of n characters
Msg(n) == Repeat("1234567890", n \div 10) \o SubSeq("1234567890", 1, n % 10)

\* str(e) of the exceptions the remote call raises
RemoteErrors == {Msg(ErrLen), Msg(ErrLen + 1)}

NoContent == [none |-> TRUE, text |-> ""]
Content(t) == [none |-> FALSE, text |-> t]

\* the responses the remote call returns: their choices' message contents
Responses == { <<>>, <<NoContent>>, <<Content(" Product A\n"), Content("other")>> }

GlossaryTexts ==
    { "{}",
      "{\"a\":\"b\"}",
      "{\"a\":\"b\", \"ca\":\"bd\"}",
      "{\"a;x\":\"b\", \"x\":\"b\"}",
      "{\"a\":\"b\", \"a\":\"c\"}",
      "{\"a\":1}",
      "{\"a\":{\"b\":\"c\"}}",
      "[\"a\",\"b\"]",
      "\"a\"",
      "7",
      "{\"a\":\"b\"",
      "" }

GlossaryFiles == [utf8 : {TRUE}, text : GlossaryTexts]
                 \cup {[utf8 |-> FALSE, text |-> ""]}

SourceCells == {NaN, StrCell(""), StrCell(" "), StrCell(" a"), IntCell(7)}

ColumnLayouts == { <<"desc", "sku">>, <<"desc", "desc_translated">> }

\* pd.read_excel: the default RangeIndex 0..n-1
Frame(columns, cells) ==
    [columns |-> columns,
     index |-> [j \in DOMAIN cells |-> j - 1],
     data |-> [c \in Range(columns) |->
                 IF c = "desc" THEN cells
                 ELSE [j \in DOMAIN cells |-> StrCell("old")]]]

CellSeqs == UNION {[1..n -> SourceCells] : n \in 0..MaxRows}

ExcelFiles == {[readable |-> TRUE, df |-> Frame(cols, cells)] :
                  cols \in ColumnLayouts, cells \in CellSeqs}
              \cup {[readable |-> FALSE, df |-> NoDf]}

\* The end-to-end scenario: the column ["hello", "", "a"].
ScenarioCells == <<StrCell("hello"), StrCell(""), StrCell("a")>>
ScenarioFiles == {[readable |-> TRUE, df |-> Frame(cols, ScenarioCells)] :
                     cols \in ColumnLayouts}
DefaultGlossaryFile == [utf8 |-> TRUE, text |-> "{\"a\":\"b\"}"]

\* The uploads of a run: every workbook with the default glossary, and every
\* glossary with the scenario's workbook or an unreadable one.
Uploads == (ExcelFiles \X {DefaultGlossaryFile})
           \cup ((ScenarioFiles \cup {[readable |-> FALSE, df |-> NoDf]})
                 \X GlossaryFiles)

NoError == [cls |-> "", msg |-> ""]
NoExc == [raised |-> FALSE, msg |-> ""]
Exc(msg) == [raised |-> TRUE, msg |-> msg]

-----------------------------------------------------------------------------
(* main *)

Init ==
    /\ pc = "main_sidebar"
    /\ \E u \in Uploads : excel_file = u[1] /\ glossary_file = u[2]
    /\ api_key \in BOOLEAN
    /\ col_name = ""
    /\ df = NoDf
    /\ glossary = JNull
    /\ sys_prompt = ""
    /\ total_rows = 0
    /\ pos = 0
    /\ calls = <<>>
    /\ excs = <<>>
    /\ status = <<>>
    /\ reports = <<>>
    /\ notices = <<>>
    /\ abort_at = "none"
    /\ last_exc = NoError

ErrBanner(msg) == Notice("error", "processing failed:" \o msg)

\* The handler of lines 173-174.
Abort(step, cls, msg) ==
    /\ pc' = "aborted"
    /\ abort_at' = step
    /\ last_exc' = [cls |-> cls, msg |-> msg]
    /\ notices' = Append(notices, ErrBanner(msg))

\* Lines 116-125: the sidebar reads the workbook for its column names, outside
\* any try block, and the user picks the column and presses the button.
MainSidebar ==
    /\ pc = "main_sidebar"
    /\ IF excel_file.readable
       THEN /\ \E c \in Range(excel_file.df.columns) : col_name' = c
            /\ pc' = "main_read"
            /\ UNCHANGED <<abort_at, last_exc>>
       ELSE /\ pc' = "crashed"
            /\ abort_at' = "read_excel"
            /\ col_name' = col_name
            /\ last_exc' = last_exc
    /\ UNCHANGED <<excel_file, glossary_file, api_key, df, glossary, sys_prompt,
                   total_rows, pos, calls, excs, status, reports, notices>>

\* Line 136.
MainReadExcel ==
    /\ pc = "main_read"
    /\ IF excel_file.readable
       THEN /\ df' = excel_file.df
            /\ pc' = "main_glossary"
            /\ UNCHANGED <<abort_at, last_exc, notices>>
       ELSE /\ Abort("read_excel", "BadZipFile", "File is not a zip file")
            /\ df' = df
    /\ UNCHANGED <<excel_file, glossary_file, api_key, col_name, glossary,
                   sys_prompt, total_rows, pos, calls, excs, status, reports>>

\* Lines 137-138: glossary_file.getvalue().decode("utf-8"), then load_glossary.
DecodeAndLoad ==
    IF glossary_file.utf8 THEN load_glossary(glossary_file.text)
    ELSE Raised("UnicodeDecodeError", "'utf-8' codec can't decode")

\* Lines 137-138 with a failed load replaced by an empty glossary.
MainLoadGlossary_Lenient ==
    /\ pc = "main_glossary"
    /\ glossary' = IF DecodeAndLoad.raised THEN JVal("dict", "", <<>>)
                   ELSE DecodeAndLoad.value
    /\ notices' = notices \o DecodeAndLoad.notice
    /\ pc' = "tc_setup"
    /\ UNCHANGED <<excel_file, glossary_file, api_key, col_name, df, sys_prompt,
                   total_rows, pos, calls, excs, status, reports, abort_at,
                   last_exc>>

\* Lines 137-138, and the handler of lines 173-174.
MainLoadGlossary ==
    /\ pc = "main_glossary"
    /\ IF DecodeAndLoad.raised
       THEN /\ Abort("load_glossary", DecodeAndLoad.cls, DecodeAndLoad.msg)
            /\ glossary' = glossary
       ELSE /\ glossary' = DecodeAndLoad.value
            /\ notices' = notices \o DecodeAndLoad.notice
            /\ pc' = "tc_setup"
            /\ UNCHANGED <<abort_at, last_exc>>
    /\ UNCHANGED <<excel_file, glossary_file, api_key, col_name, df, sys_prompt,
                   total_rows, pos, calls, excs, status, reports>>

-----------------------------------------------------------------------------
(* translate_column *)

\* Lines 26-47: the destination column, the system prompt, the progress bar,
\* total_rows and the client.  OpenAI(api_key=None) raises when the credential
\* is not set; main's handler reports it.
TcSetup ==
    /\ pc = "tc_setup"
    /\ df' = SetColumn(df, NewCol(col_name, TargetLang), StrCell(""))
    /\ sys_prompt' = BuildSysPrompt(glossary)
    /\ total_rows' = Len(df.index)
    /\ IF api_key
       THEN /\ pc' = "tc_row"
            /\ pos' = 1
            /\ excs' = [j \in DOMAIN df.index |-> NoExc]
            /\ status' = [j \in DOMAIN df.index |-> "Pending"]
            /\ UNCHANGED <<abort_at, last_exc, notices>>
       ELSE /\ Abort("client", "OpenAIError", "The api_key client option must be set")
            /\ UNCHANGED <<pos, excs, status>>
    /\ UNCHANGED <<excel_file, glossary_file, api_key, col_name, glossary, calls,
                   reports>>

InLoop == pc = "tc_row" /\ pos <= Len(df.index)

Label == df.index[pos]
Original == df.data[col_name][pos]
Dest == NewCol(col_name, TargetLang)

\* Lines 50-53: a blank source cell.
TcSkipRow ==
    /\ InLoop
    /\ IsBlank(Original)
    /\ df' = AtSet(df, Label, Dest, StrCell(""))
    /\ status' = [status EXCEPT ![pos] = "Skipped"]
    /\ pc' = "tc_progress"
    /\ UNCHANGED <<excel_file, glossary_file, api_key, col_name, glossary,
                   sys_prompt, total_rows, pos, calls, excs, reports, notices,
                   abort_at, last_exc>>

\* Lines 50-52, 57-68: the request of a non-blank row is sent.
TcIssueCall ==
    /\ InLoop
    /\ ~IsBlank(Original)
    /\ calls' = Append(calls, [row |-> pos, system |-> sys_prompt,
                               user |-> BuildUserPrompt(Original)])
    /\ pc' = "tc_wait"
    /\ UNCHANGED <<excel_file, glossary_file, api_key, col_name, df, glossary,
                   sys_prompt, total_rows, pos, excs, status, reports, notices,
                   abort_at, last_exc>>

\* Lines 71-74.
RowFailed(msg) ==
    /\ df' = AtSet(df, Label, Dest, StrCell(ErrorMark(msg)))
    /\ excs' = [excs EXCEPT ![pos] = Exc(msg)]
    /\ status' = [status EXCEPT ![pos] = "Failed"]
    /\ notices' = Append(notices, Notice("warning", WarnText(Label, msg)))

\* Line 69: resp.choices[0].message.content.strip()
FirstContent(choices) ==
    IF choices = <<>> THEN Raised("IndexError", "list index out of range")
    ELSE IF choices[1].none
    THEN Raised("AttributeError", "'NoneType' object has no attribute 'strip'")
    ELSE Returned(Strip(choices[1].text), <<>>)

\* Lines 69-74: the remote call returns a response.
TcCallReturns ==
    /\ pc = "tc_wait"
    /\ \E choices \in Responses :
          LET r == FirstContent(choices)
          IN  IF r.raised
              THEN RowFailed(r.msg)
              ELSE /\ df' = AtSet(df, Label, Dest, StrCell(r.value))
                   /\ status' = [status EXCEPT ![pos] = "Translated"]
                   /\ UNCHANGED <<excs, notices>>
    /\ pc' = "tc_progress"
    /\ UNCHANGED <<excel_file, glossary_file, api_key, col_name, glossary,
                   sys_prompt, total_rows, pos, calls, reports, abort_at, last_exc>>

\* Lines 60, 71-74 without the try block: the exception reaches main's handler.
TcCallRaises_Propagates ==
    /\ pc = "tc_wait"
    /\ \E msg \in RemoteErrors : Abort("remote_call", "APIError", msg)
    /\ UNCHANGED <<excel_file, glossary_file, api_key, col_name, df, glossary,
                   sys_prompt, total_rows, pos, calls, excs, status, reports>>

\* Lines 60, 71-74 with the failed call sent once more.
TcCallRaises_Retry ==
    /\ pc = "tc_wait"
    /\ IF Len(calls) < 2 \/ calls[Len(calls) - 1].row # pos
       THEN /\ calls' = Append(calls, calls[Len(calls)])
            /\ UNCHANGED <<df, excs, status, notices, pc>>
       ELSE /\ \E msg \in RemoteErrors : RowFailed(msg)
            /\ pc' = "tc_progress"
            /\ calls' = calls
    /\ UNCHANGED <<excel_file, glossary_file, api_key, col_name, glossary,
                   sys_prompt, total_rows, pos, reports, abort_at, last_exc>>

\* Lines 60, 71-74: the remote call raises.
TcCallRaises ==
    /\ pc = "tc_wait"
    /\ \E msg \in RemoteErrors : RowFailed(msg)
    /\ pc' = "tc_progress"
    /\ UNCHANGED <<excel_file, glossary_file, api_key, col_name, glossary,
                   sys_prompt, total_rows, pos, calls, reports, abort_at, last_exc>>

\* The value of (idx + 1) / total_rows, as the fraction <<numerator, denominator>>.
ProgressValue == <<Label + 1, total_rows>>

\* st.progress accepts a float in [0.0, 1.0]
ProgressAccepts(v) == 0 <= v[1] /\ v[1] <= v[2]

\* Lines 54 and 77.
TcProgress ==
    /\ pc = "tc_progress"
    /\ ProgressAccepts(ProgressValue)
    /\ reports' = Append(reports, ProgressValue)
    /\ pos' = pos + 1
    /\ pc' = "tc_row"
    /\ UNCHANGED <<excel_file, glossary_file, api_key, col_name, df, glossary,
                   sys_prompt, total_rows, calls, excs, status, notices, abort_at, last_exc>>

\* Lines 54 and 77, st.progress raising on a value outside [0.0, 1.0]: the
\* exception leaves translate_column.
TcProgressRaises ==
    /\ pc = "tc_progress"
    /\ ~ProgressAccepts(ProgressValue)
    /\ reports' = Append(reports, ProgressValue)
    /\ pc' = "raised"
    /\ abort_at' = "progress"
    /\ last_exc' = [cls |-> "StreamlitAPIException",
                    msg |-> "Progress Value has invalid value [0.0, 1.0]"]
    /\ UNCHANGED <<excel_file, glossary_file, api_key, col_name, df, glossary,
                   sys_prompt, total_rows, pos, calls, excs, status, notices>>

\* Lines 79-80.
TcReturn ==
    /\ pc = "tc_row"
    /\ pos > Len(df.index)
    /\ pc' = "tc_returned"
    /\ UNCHANGED <<excel_file, glossary_file, api_key, col_name, df, glossary,
                   sys_prompt, total_rows, pos, calls, excs, status, reports,
                   notices, abort_at, last_exc>>

\* Lines 150-171.
MainShowResult ==
    /\ pc = "tc_returned"
    /\ pc' = "done"
    /\ notices' = Append(notices, Notice("success", "translation finished"))
    /\ UNCHANGED <<excel_file, glossary_file, api_key, col_name, df, glossary,
                   sys_prompt, total_rows, pos, calls, excs, status, reports,
                   abort_at, last_exc>>

Next ==
    \/ MainSidebar
    \/ MainReadExcel
    \/ MainLoadGlossary
    \/ TcSetup
    \/ TcSkipRow
    \/ TcIssueCall
    \/ TcCallReturns
    \/ TcCallRaises
    \/ TcProgress
    \/ TcReturn
    \/ MainShowResult

Spec == Init /\ [][Next]_vars

\* The steps of translate_column's loop, lines 49-80.
LoopStep ==
    \/ TcSkipRow
    \/ TcIssueCall
    \/ TcCallReturns
    \/ TcCallRaises
    \/ TcProgress
    \/ TcReturn

\* Every remote call returns or raises, and the thread of control, the only
\* one, keeps running the loop.
FairSpec == Spec /\ WF_vars(LoopStep)

-----------------------------------------------------------------------------
(* translate_column called on a frame whose index is not the default one *)

LabelledFrames ==
    {[columns |-> <<"desc">>, index |-> labels,
      data |-> [c \in {"desc"} |-> cells]] :
        labels \in UNION {[1..n -> 0..MaxLabel] : n \in 1..MaxRows},
        cells \in CellSeqs}

InitLabelled ==
    /\ pc = "tc_setup"
    /\ excel_file = [readable |-> TRUE, df |-> NoDf]
    /\ glossary_file = [utf8 |-> TRUE, text |-> "{\"a\":\"b\"}"]
    /\ api_key = TRUE
    /\ col_name = "desc"
    /\ df \in {d \in LabelledFrames : Len(d.index) = Len(d.data["desc"])}
    /\ glossary = JsonLoads(glossary_file.text).val
    /\ sys_prompt = ""
    /\ total_rows = 0
    /\ pos = 0
    /\ calls = <<>>
    /\ excs = <<>>
    /\ status = <<>>
    /\ reports = <<>>
    /\ notices = <<>>
    /\ abort_at = "none"
    /\ last_exc = NoError

NextLabelled ==
    \/ TcSetup
    \/ TcSkipRow
    \/ TcIssueCall
    \/ TcCallReturns
    \/ TcCallRaises
    \/ TcProgress
    \/ TcProgressRaises
    \/ TcReturn

SpecLabelled == InitLabelled /\ [][NextLabelled]_vars

-----------------------------------------------------------------------------
(* The claims *)

\* The table as uploaded, and the run's position relative to translate_column.
T == excel_file.df
Rows == DOMAIN df.index
AfterSetup == pc \in {"tc_row", "tc_wait", "tc_progress", "tc_returned", "done"}
HasReturned == pc \in {"tc_returned", "done"}
DestCell(j) == df.data[col_name \o "_translated"][j]
SourceCell(j) == T.data[col_name][j]

AllSpace(s) == \A i \in 1..Len(s) : SubSeq(s, i, i) \in {" ", "\t", "\n"}
BlankCell(c) == c.t = "nan" \/ (c.t = "str" /\ AllSpace(c.s))

ErrorNotices == {k \in DOMAIN notices : notices[k].kind = "error"}

\* C1: a row whose remote call raised (or whose response was malformed) holds
\* "[ERROR: " + m + "]" in its destination cell, m being the first 200 characters
\* of the exception's message (the whole message when it is shorter); and when
\* translate_column returns, every row after such a row has been processed.
C1_ErrorMarker ==
    /\ \A j \in DOMAIN excs :
          excs[j].raised =>
             \E k \in 0..200 :
                /\ k <= Len(excs[j].msg)
                /\ k = 200 \/ k = Len(excs[j].msg)
                /\ DestCell(j).t = "str"
                /\ DestCell(j).s = "[ERROR: " \o SubSeq(excs[j].msg, 1, k) \o "]"
    /\ HasReturned =>
          \A j \in DOMAIN excs : \A k \in DOMAIN excs :
             (excs[j].raised /\ k > j) => status[k] # "Pending"

C1_Witness ==
    /\ pc = "tc_returned"
    /\ \E j \in DOMAIN excs : \E k \in DOMAIN excs :
          /\ j < k
          /\ excs[j].raised
          /\ Len(excs[j].msg) = 201
          /\ Len(DestCell(j).s) = 209
          /\ status[k] = "Translated"

\* C2: a row whose source cell is NaN or consists of whitespace only never gets
\* a remote call, and its destination cell is "" when translate_column returns.
C2_BlankRows ==
    /\ \A k \in DOMAIN calls : ~BlankCell(SourceCell(calls[k].row))
    /\ HasReturned =>
          \A j \in Rows : BlankCell(SourceCell(j)) => DestCell(j) = StrCell("")

C2_Witness ==
    /\ pc = "tc_returned"
    /\ calls # <<>>
    /\ \E j \in Rows :
          /\ SourceCell(j) = StrCell(" ")
          /\ status[j] = "Skipped"
          /\ DestCell(j) = StrCell("")

\* C3: the returned table has the columns of T followed by exactly one new
\* column named C_translated, and T's rows in T's order.
C3_OneNewColumn ==
    HasReturned =>
       /\ df.columns = Append(T.columns, col_name \o "_translated")
       /\ Len(df.columns) = Len(T.columns) + 1
       /\ df.index = T.index
       /\ df.data[col_name] = T.data[col_name]

C5_RowIsolation ==
    [][ (pc \in {"tc_row", "tc_wait"} /\ pos \in Rows) =>
          /\ \A c \in Range(T.columns) : df'.data[c] = df.data[c]
          /\ \A j \in Rows \ {pos} : DestCell(j)' = DestCell(j) ]_vars

\* C6: unparseable content fails with the format error; content that parses
\* but is not a flat string-to-string mapping fails with the shape error, not
\* with the generic wrapping error.
FlatStringMap(v) ==
    v.k = "dict" /\ \A j \in DOMAIN v.items : v.items[j].val.k = "str"

C6_ErrorKinds ==
    (glossary_file.utf8 /\ pc \notin {"main_sidebar", "main_read", "main_glossary",
                                       "crashed"}) =>
       LET r == JsonLoads(glossary_file.text)
       IN  /\ ~r.ok =>
                /\ abort_at = "load_glossary"
                /\ last_exc = [cls |-> "ValueError", msg |-> FormatMsg]
           /\ (r.ok /\ ~FlatStringMap(r.val)) =>
                /\ abort_at = "load_glossary"
                /\ last_exc = [cls |-> "ValueError", msg |-> ShapeMsg]

\* C7: with a malformed glossary (undecodable, unparseable, or a JSON array or
\* scalar) no remote call is ever issued and the run ends aborted with exactly
\* one error banner; a run that issued a call loaded its glossary before.
MalformedGlossary ==
    \/ ~glossary_file.utf8
    \/ ~JsonLoads(glossary_file.text).ok
    \/ JsonLoads(glossary_file.text).val.k # "dict"

C7_NoCallOnBadGlossary ==
    /\ MalformedGlossary =>
          /\ calls = <<>>
          /\ pc \notin {"main_sidebar", "main_read", "main_glossary", "crashed"} =>
                pc = "aborted" /\ Cardinality(ErrorNotices) = 1
    /\ calls # <<>> =>
          /\ glossary.k = "dict"
          /\ notices # <<>> /\ notices[1].kind = "success"

C7_Witness ==
    /\ pc = "aborted"
    /\ abort_at = "load_glossary"
    /\ JsonLoads(glossary_file.text).ok
    /\ JsonLoads(glossary_file.text).val.k = "list"
    /\ Len(T.index) = 3

\* C8, as claimed: the system prompt contains each "key:value" pair of a flat
\* string-to-string glossary exactly once.
Occurrences(p, s) ==
    Cardinality({i \in 1..(Len(s) - Len(p) + 1) : SubSeq(s, i, i + Len(p) - 1) = p})

PairText(item) == item.key \o ":" \o item.val.s

C8_EachPairOnce ==
    (AfterSetup /\ FlatStringMap(glossary)) =>
       \A j \in DOMAIN glossary.items :
          Occurrences(PairText(glossary.items[j]), sys_prompt) = 1

\* C8, amended: the system prompt is the fixed head, then one "key:value" item
\* per entry of the glossary, in the glossary's order, each item after the
\* first preceded by ";", then the fixed tail; so each pair occurs at least
\* once; and every call of the run carries that same prompt.
RECURSIVE ItemStart(_, _)
ItemStart(items, j) ==
    IF j = 1 THEN Len(SysHead) + 1
    ELSE ItemStart(items, j - 1) + Len(PairText(items[j - 1])) + 1

RuleEnd(items) ==
    IF items = <<>> THEN Len(SysHead)
    ELSE ItemStart(items, Len(items)) + Len(PairText(items[Len(items)])) - 1

C8_PromptLayout ==
    (AfterSetup /\ FlatStringMap(glossary)) =>
       LET items == glossary.items
       IN  /\ SubSeq(sys_prompt, 1, Len(SysHead)) = SysHead
           /\ \A j \in DOMAIN items :
                 /\ SubSeq(sys_prompt, ItemStart(items, j),
                           ItemStart(items, j) + Len(PairText(items[j])) - 1)
                       = PairText(items[j])
                 /\ j > 1 => SubSeq(sys_prompt, ItemStart(items, j) - 1,
                                    ItemStart(items, j) - 1) = ";"
                 /\ Occurrences(PairText(items[j]), sys_prompt) >= 1
           /\ SubSeq(sys_prompt, RuleEnd(items) + 1, Len(sys_prompt)) = SysTail
           /\ \A k \in DOMAIN calls : calls[k].system = sys_prompt

C8_Witness ==
    /\ pc = "tc_returned"
    /\ Len(calls) = 2
    /\ FlatStringMap(glossary)
    /\ Len(glossary.items) = 2
    /\ Occurrences(PairText(glossary.items[1]), sys_prompt) = 2

\* C9: calls are issued one at a time in table order, one per non-blank row and
\* none per blank row; when translate_column returns the number of calls is
\* the number of non-blank rows; a row leaves Pending once, for exactly one of
\* Skipped, Translated, Failed, and stays there.
NonBlankRows == {j \in Rows : ~BlankCell(SourceCell(j))}

C9_State ==
    /\ \A k \in DOMAIN calls :
          /\ calls[k].row \in NonBlankRows
          /\ k > 1 => calls[k - 1].row < calls[k].row
          /\ k < Len(calls) => status[calls[k].row] \in {"Translated", "Failed"}
    /\ \A j \in DOMAIN status :
          /\ status[j] \in {"Pending", "Skipped", "Translated", "Failed"}
          /\ status[j] = "Skipped" => BlankCell(SourceCell(j))
          /\ status[j] \in {"Translated", "Failed"} =>
                \E k \in DOMAIN calls : calls[k].row = j
    /\ HasReturned =>
          /\ Len(calls) = Cardinality(NonBlankRows)
          /\ \A j \in Rows : status[j] # "Pending"

C9_OneCallPerRow ==
    /\ []C9_State
    /\ [][\A j \in DOMAIN status :
             status[j] # "Pending" => status'[j] = status[j]]_vars

C9_Witness ==
    /\ pc = "tc_returned"
    /\ df.data[col_name] = ScenarioCells
    /\ Len(calls) = 2
    /\ status = <<"Translated", "Skipped", "Failed">>

\* C10: the k-th progress report is k/N, so the reports increase strictly from
\* above 0 to exactly 1.0, whatever the index labels of the table are.
C10_ProgressFractions ==
    /\ \A k \in DOMAIN reports :
          /\ reports[k] = <<k, Len(df.index)>>
          /\ reports[k][1] <= reports[k][2]
    /\ HasReturned => Len(reports) = Len(df.index)

=============================================================================
